---- MODULE Spec2Model ----
(***************************************************************************)
(* Company enrichment agent (src/company_enrichment_agent.py).             *)
(*                                                                         *)
(* Six state machines over one set of operators:                           *)
(*   Spec         process_csv: the batch loop, the merge of each record's  *)
(*                enrichment result, the periodic and the final save       *)
(*                (SpecLive: the same loop with weak fairness).            *)
(*   SpecRun      process_csv from its first statement, with a table that  *)
(*                may fail to load or to be written.                       *)
(*   SpecEnrich   enrich_company for one record, statement by statement,   *)
(*                with the trace of delays and outbound requests.          *)
(*   SpecValidate the two checks of QualityValidator called on their own.  *)
(*   SpecResolve  find_official_website for one name, strategy by          *)
(*                strategy.                                                *)
(*   SpecInterrupt the batch loop under a keyboard interrupt.              *)
(* Strings are Python strings; the text functions work on characters.      *)
(***************************************************************************)
EXTENDS Integers, Sequences, FiniteSets, TLC

(***************************************************************************)
(* Text primitives (Python str / re behaviour used by the agent)           *)
(***************************************************************************)
\* "v = value; F(v)": the value is computed once and named
Bind(value, F(_)) == CHOOSE r \in {F(v) : v \in {value}} : TRUE

Char(s, i) == IF i >= 1 /\ i <= Len(s) THEN SubSeq(s, i, i) ELSE ""

UpperChars == "ABCDEFGHIJKLMNOPQRSTUVWXYZ"
LowerChars == "abcdefghijklmnopqrstuvwxyz"
DigitChars == "0123456789"

IndexIn(c, alphabet) ==
  IF \E i \in 1..Len(alphabet) : SubSeq(alphabet, i, i) = c
  THEN CHOOSE i \in 1..Len(alphabet) : SubSeq(alphabet, i, i) = c
  ELSE 0

CharsOf(alphabet) == {SubSeq(alphabet, i, i) : i \in 1..Len(alphabet)}

\* the lower-case letter of each upper-case letter, and the converse
LowerOf == [c \in CharsOf(UpperChars) |-> SubSeq(LowerChars, IndexIn(c, UpperChars), IndexIn(c, UpperChars))]
UpperOf == [c \in CharsOf(LowerChars) |-> SubSeq(UpperChars, IndexIn(c, LowerChars), IndexIn(c, LowerChars))]

WordChars == CharsOf(UpperChars) \cup CharsOf(LowerChars) \cup CharsOf(DigitChars) \cup {"_"}

LowerChar(c) == IF c \in DOMAIN LowerOf THEN LowerOf[c] ELSE c

RECURSIVE Lower(_)
Lower(s) == IF Len(s) = 0 THEN "" ELSE LowerChar(SubSeq(s, 1, 1)) \o Lower(SubSeq(s, 2, Len(s)))

UpperChar(c) == IF c \in DOMAIN UpperOf THEN UpperOf[c] ELSE c

RECURSIVE Upper(_)
Upper(s) == IF Len(s) = 0 THEN "" ELSE UpperChar(SubSeq(s, 1, 1)) \o Upper(SubSeq(s, 2, Len(s)))

IsSpace(c) == c = " "

\* \w of the re module: letters, digits, underscore.
IsWordChar(c) == c \in WordChars

\* w in d
Contains(d, w) ==
  \E i \in 1..(Len(d) - Len(w) + 1) : SubSeq(d, i, i + Len(w) - 1) = w

StartsWith(s, p) == Len(p) <= Len(s) /\ SubSeq(s, 1, Len(p)) = p

EndsWith(s, p) == Len(p) <= Len(s) /\ SubSeq(s, Len(s) - Len(p) + 1, Len(s)) = p

\* s[i:i+len(p)] equals p, ignoring case
MatchesAt(s, i, p) ==
  /\ i >= 1
  /\ i + Len(p) - 1 <= Len(s)
  /\ Lower(SubSeq(s, i, i + Len(p) - 1)) = Lower(p)

\* \b between positions i-1 and i
WordBoundary(s, i) == IsWordChar(Char(s, i - 1)) # IsWordChar(Char(s, i))

RECURSIVE SkipSpaces(_, _)
SkipSpaces(s, i) == IF IsSpace(Char(s, i)) THEN SkipSpaces(s, i + 1) ELSE i

\* str.strip()
RECURSIVE LStrip(_)
LStrip(s) == IF Len(s) > 0 /\ IsSpace(SubSeq(s, 1, 1)) THEN LStrip(SubSeq(s, 2, Len(s))) ELSE s

RECURSIVE RStrip(_)
RStrip(s) ==
  IF Len(s) > 0 /\ IsSpace(SubSeq(s, Len(s), Len(s))) THEN RStrip(SubSeq(s, 1, Len(s) - 1)) ELSE s

Strip(s) == LStrip(RStrip(s))

\* str.split(): the maximal runs of non-whitespace
RECURSIVE SplitFrom(_, _, _)
SplitFrom(s, i, cur) ==
  IF i > Len(s)
  THEN IF cur = "" THEN <<>> ELSE <<cur>>
  ELSE IF IsSpace(Char(s, i))
       THEN IF cur = "" THEN SplitFrom(s, i + 1, "") ELSE <<cur>> \o SplitFrom(s, i + 1, "")
       ELSE SplitFrom(s, i + 1, cur \o Char(s, i))

Split(s) == SplitFrom(s, 1, "")

\* str.replace(pat, "")
RECURSIVE RemoveAll(_, _)
RemoveAll(s, pat) ==
  IF Len(s) = 0 THEN ""
  ELSE IF StartsWith(s, pat) /\ Len(pat) > 0
       THEN RemoveAll(SubSeq(s, Len(pat) + 1, Len(s)), pat)
       ELSE SubSeq(s, 1, 1) \o RemoveAll(SubSeq(s, 2, Len(s)), pat)

\* re.sub(r'[^\w\s]', rep, s)
RECURSIVE SubPunct(_, _)
SubPunct(s, rep) ==
  IF Len(s) = 0 THEN ""
  ELSE LET c == SubSeq(s, 1, 1) IN
       (IF IsWordChar(c) \/ IsSpace(c) THEN c ELSE rep) \o SubPunct(SubSeq(s, 2, Len(s)), rep)

SelectLonger(words, n) == SelectSeq(words, LAMBDA w : Len(w) > n)

RECURSIVE Concat(_)
Concat(words) == IF Len(words) = 0 THEN "" ELSE Head(words) \o Concat(Tail(words))

RECURSIVE JoinSpace(_)
JoinSpace(words) ==
  IF Len(words) = 0 THEN ""
  ELSE IF Len(words) = 1 THEN Head(words)
  ELSE Head(words) \o " " \o JoinSpace(Tail(words))

Take(seq, n) == SubSeq(seq, 1, IF Len(seq) < n THEN Len(seq) ELSE n)

\* int(match) for a match of \d+
RECURSIVE ParseInt(_)
ParseInt(s) ==
  IF Len(s) = 0 THEN 0
  ELSE 10 * ParseInt(SubSeq(s, 1, Len(s) - 1)) + (IndexIn(SubSeq(s, Len(s), Len(s)), DigitChars) - 1)

\* str(num) for num >= 0
RECURSIVE IntToStr(_)
IntToStr(n) ==
  IF n < 10 THEN SubSeq(DigitChars, n + 1, n + 1)
  ELSE IntToStr(n \div 10) \o SubSeq(DigitChars, (n % 10) + 1, (n % 10) + 1)

(***************************************************************************)
(* The legal-suffix pattern \b(LIMITED|LTD|CO\.?,?\s*LTD\.?)\b, IGNORECASE *)
(***************************************************************************)
\* Length of the match starting at position i, 0 when there is none.  The
\* alternatives are tried in the pattern's order; the trailing \.? gives the
\* dot back when no word boundary follows it.
LegalSuffixMatchLen(s, i) ==
  IF ~WordBoundary(s, i) THEN 0
  ELSE IF MatchesAt(s, i, "LIMITED") /\ WordBoundary(s, i + 7) THEN 7
  ELSE IF MatchesAt(s, i, "LTD") /\ WordBoundary(s, i + 3) THEN 3
  ELSE IF MatchesAt(s, i, "CO")
       THEN LET a == IF Char(s, i + 2) = "." THEN i + 3 ELSE i + 2
                b == IF Char(s, a) = "," THEN a + 1 ELSE a
                c == SkipSpaces(s, b)
            IN IF ~MatchesAt(s, c, "LTD") THEN 0
               ELSE IF Char(s, c + 3) = "." /\ WordBoundary(s, c + 4) THEN c + 4 - i
               ELSE IF WordBoundary(s, c + 3) THEN c + 3 - i
               ELSE 0
  ELSE 0

\* re.sub(pattern, '', s)
RECURSIVE StripLegalFrom(_, _)
StripLegalFrom(s, i) ==
  IF i > Len(s) THEN ""
  ELSE LET n == LegalSuffixMatchLen(s, i) IN
       IF n > 0 THEN StripLegalFrom(s, i + n) ELSE Char(s, i) \o StripLegalFrom(s, i + 1)

StripLegalSuffix(s) == StripLegalFrom(s, 1)

\* urlparse(url).netloc
RECURSIVE HostEnd(_, _)
HostEnd(s, i) ==
  IF i > Len(s) \/ Char(s, i) \in {"/", "?", "#"} THEN i - 1 ELSE HostEnd(s, i + 1)

RECURSIVE FindColon(_, _)
FindColon(s, i) == IF i > Len(s) THEN 0 ELSE IF Char(s, i) = ":" THEN i ELSE FindColon(s, i + 1)

Netloc(url) ==
  LET c == FindColon(url, 1) IN
  IF c > 1 /\ SubSeq(url, c + 1, c + 2) = "//"
  THEN SubSeq(url, c + 3, HostEnd(url, c + 3))
  ELSE IF StartsWith(url, "//") THEN SubSeq(url, 3, HostEnd(url, 3))
  ELSE ""

(***************************************************************************)
(* QualityValidator                                                        *)
(***************************************************************************)
blacklisted_domains ==
  << "microsoft.com", "google.com", "facebook.com", "linkedin.com", "twitter.com",
     "youtube.com", "wikipedia.org", "gov.uk", "bbc.com", "booking.com",
     "cnbc.com", "scribd.com", "forums.", "forum.", "support.", "answers.",
     "fandom.com", "npmjs.com", "kortoverkobenhavn.com", "svenskafans.com",
     "writedu.com", "bmj.com", "epictravelplans.com", "fuji-x-forum.com",
     "leagueoflegends.", "wordreference.com", "x-plane.org" >>

Count(seq, P(_)) == Len(SelectSeq(seq, P))

\* company_words of validate_company_website: punctuation becomes a space
ValidatorWords(company_name) ==
  SelectLonger(Split(Lower(Strip(SubPunct(StripLegalSuffix(company_name), " ")))), 2)

Invalid(reason) == [valid |-> FALSE, reason |-> reason, confidence |-> 0]

Min(a, b) == IF a < b THEN a ELSE b

NameMatchRejects(domain_matches, company_words) ==
  domain_matches = 0 /\ Len(company_words) > 0

IsBlacklisted(domain) ==
  \E i \in 1..Len(blacklisted_domains) : Contains(domain, blacklisted_domains[i])

HasBusinessSuffix(domain) ==
  EndsWith(domain, ".co.uk") \/ EndsWith(domain, ".com") \/ EndsWith(domain, ".org")

Confidence(domain_matches) == Min(100, domain_matches * 30 + 40)

\* the checks with the suffix test put before the blacklist test
ValidateDomainSuffixFirst(domain, company_words) ==
  IF ~HasBusinessSuffix(domain) THEN Invalid("Non-business domain extension")
  ELSE IF IsBlacklisted(domain) THEN Invalid("Blacklisted domain: " \o domain)
  ELSE IF NameMatchRejects(Count(company_words, LAMBDA w : Contains(domain, w)), company_words)
  THEN Invalid("No company name match in domain")
  ELSE [valid |-> TRUE, reason |-> "",
        confidence |-> Confidence(Count(company_words, LAMBDA w : Contains(domain, w)))]

\* the checks on the parsed host, in the order of the code
ValidateDomain(domain, company_words) ==
  Bind(Count(company_words, LAMBDA w : Contains(domain, w)), LAMBDA domain_matches :
    IF IsBlacklisted(domain) THEN Invalid("Blacklisted domain: " \o domain)
    ELSE IF ~HasBusinessSuffix(domain) THEN Invalid("Non-business domain extension")
    ELSE IF NameMatchRejects(domain_matches, company_words)
    THEN Invalid("No company name match in domain")
    ELSE [valid |-> TRUE, reason |-> "", confidence |-> Confidence(domain_matches)])

validate_company_website(url, company_name) ==
  IF url = "" \/ ~StartsWith(url, "http") THEN Invalid("Invalid URL format")
  ELSE Bind(Lower(Netloc(url)), LAMBDA domain :
         Bind(ValidatorWords(company_name), LAMBDA company_words :
           ValidateDomain(domain, company_words)))

\* set(s.split())
WordSet(s) == LET w == Split(s) IN {w[i] : i \in 1..Len(w)}

\* a check that accepts every non-empty description
validate_company_description_any(description, sic_codes) ==
  IF description = "" THEN Invalid("Empty description")
  ELSE [valid |-> TRUE, reason |-> "", confidence |-> 70]

validate_company_description(description, sic_codes) ==
  IF description = "" THEN Invalid("Empty description")
  ELSE IF StartsWith(description, "Company engaged in")
          /\ Cardinality(WordSet(Lower(Strip(RemoveAll(description, "Company engaged in"))))
                         \cap WordSet(Lower(JoinSpace(sic_codes)))) > 3
       THEN Invalid("Too similar to SIC codes")
       ELSE [valid |-> TRUE, reason |-> "", confidence |-> 70]

(***************************************************************************)
(* Outbound requests: every operator returns its value and its trace       *)
(***************************************************************************)
\* A response: status 0 stands for a raised requests exception (timeout,
\* connection error); text is the text the caller extracts from the body.
Down == [head |-> 0, status |-> 0, text |-> ""]

Resp(web, url) == IF url \in DOMAIN web THEN web[url] ELSE Down

DelayEv(by) == [k |-> "delay", url |-> "", by |-> by]
HeadEv(url, by) == [k |-> "head", url |-> url, by |-> by]
GetEv(url, by) == [k |-> "get", url |-> url, by |-> by]

\* a GET that is not preceded by random_delay
BareGet(url, by) == << GetEv(url, by) >>

\* self.random_delay() followed by the request
DelayedHead(url, by) == << DelayEv(by), HeadEv(url, by) >>
DelayedGet(url, by) == << DelayEv(by), GetEv(url, by) >>

business_keywords ==
  << "company", "business", "services", "products", "about us", "contact", "manufacturing" >>

\* company_words of _verify_business_website
VerifyWords(company_name) ==
  Split(RemoveAll(RemoveAll(Lower(company_name), "limited"), "ltd"))

BusinessScore(text_content) ==
  Count(business_keywords, LAMBDA kw : Contains(text_content, kw))

NameScore(company_words, text_content) ==
  Count(company_words, LAMBDA w : Len(w) > 3 /\ Contains(text_content, w))

LooksLikeBusiness(text_content, company_name) ==
  BusinessScore(text_content) >= 2 /\ NameScore(VerifyWords(company_name), text_content) >= 1

_verify_business_website(url, company_name, web, by) ==
  Bind(Resp(web, url), LAMBDA r :
    [ ret |-> /\ r.status # 0
              /\ r.status < 400
              /\ Bind(Lower(r.text), LAMBDA text_content :
                       LooksLikeBusiness(text_content, company_name)),
      tr |-> DelayedGet(url, by) ])

(***************************************************************************)
(* Website discovery                                                       *)
(***************************************************************************)
MaxCandidates == 4

\* words of _construct_and_test_domains: punctuation is deleted
DomainWords(company_name) ==
  SelectLonger(Split(Lower(Strip(SubPunct(StripLegalSuffix(company_name), "")))), 2)

DomainCandidates(words) ==
  (IF Len(words) >= 2
   THEN << words[1] \o words[2] \o ".co.uk",
           words[1] \o "-" \o words[2] \o ".co.uk",
           words[1] \o words[2] \o ".com",
           IF Len(words) > 2 THEN Concat(Take(words, 3)) \o ".co.uk"
                             ELSE words[1] \o words[2] \o ".co.uk" >>
   ELSE << >>)
  \o << words[1] \o ".co.uk", words[1] \o ".com" >>

HeadOk(r) == 200 <= r.head /\ r.head < 400

\* the loop "for domain in candidates[:4]"
RECURSIVE TestCandidates(_, _, _)
\* r: a call's [ret, tr]; the events tr happened before it
After(tr, r) == [r EXCEPT !.tr = tr \o @]

TestCandidates(cands, company_name, web) ==
  IF Len(cands) = 0 THEN [ret |-> "", tr |-> << >>]
  ELSE Bind("https://www." \o Head(cands), LAMBDA test_url :
         IF HeadOk(Resp(web, test_url))
         THEN Bind(_verify_business_website(test_url, company_name, web, "domain"), LAMBDA v :
                IF v.ret
                THEN [ret |-> test_url, tr |-> DelayedHead(test_url, "domain") \o v.tr]
                ELSE After(DelayedHead(test_url, "domain") \o v.tr,
                           TestCandidates(Tail(cands), company_name, web)))
         ELSE After(DelayedHead(test_url, "domain"),
                    TestCandidates(Tail(cands), company_name, web)))

\* a variant that tests every candidate of the list
_construct_and_test_domains_all(company_name, web) ==
  IF Len(DomainWords(company_name)) = 0 THEN [ret |-> "", tr |-> << >>]
  ELSE TestCandidates(DomainCandidates(DomainWords(company_name)), company_name, web)

_construct_and_test_domains(company_name, web) ==
  Bind(DomainWords(company_name), LAMBDA words :
    IF Len(words) = 0 THEN [ret |-> "", tr |-> << >>]
    ELSE TestCandidates(Take(DomainCandidates(words), MaxCandidates), company_name, web))

\* the loop "for match in matches"; the page check is given the company number
RECURSIVE VerifyMatches(_, _, _)
VerifyMatches(matches, company_number, web) ==
  IF Len(matches) = 0 THEN [ret |-> "", tr |-> << >>]
  ELSE Bind("https://www." \o Head(matches), LAMBDA potential_url :
         Bind(_verify_business_website(potential_url, company_number, web, "registry"),
              LAMBDA v :
                IF v.ret THEN [ret |-> potential_url, tr |-> v.tr]
                ELSE After(v.tr, VerifyMatches(Tail(matches), company_number, web))))

FilingHistoryUrl(company_number) ==
  "https://find-and-update.company-information.service.gov.uk/company/"
    \o company_number \o "/filing-history"

\* ch: the filing-history response; ch.matches is what re.findall(url_pattern)
\* yields on its text (the group: host label and suffix)
_extract_website_from_companies_house(company_number, ch, web) ==
  After(DelayedGet(FilingHistoryUrl(company_number), "registry"),
        IF ch.status # 200 THEN [ret |-> "", tr |-> << >>]
        ELSE VerifyMatches(ch.matches, company_number, web))

\* a threshold above the confidence of a single matched token
ConfidenceAcceptsStrict(validation) == validation.valid /\ validation.confidence > 70

ConfidenceAccepts(validation) == validation.valid /\ validation.confidence > 50

Accepts(validation) == validation.valid

\* the loop with the test "if validation['valid']" that the other two
\* strategies apply
RECURSIVE FilterLinksAnyConfidence(_, _, _)
FilterLinksAnyConfidence(links, company_name, web) ==
  IF Len(links) = 0 THEN [ret |-> "", tr |-> << >>]
  ELSE IF Accepts(validate_company_website(Head(links), company_name))
  THEN Bind(_verify_business_website(Head(links), company_name, web, "search"), LAMBDA v :
         IF v.ret THEN [ret |-> Head(links), tr |-> v.tr]
         ELSE After(v.tr, FilterLinksAnyConfidence(Tail(links), company_name, web)))
  ELSE FilterLinksAnyConfidence(Tail(links), company_name, web)

\* the loop over the result links of the search page
RECURSIVE FilterLinks(_, _, _)
FilterLinks(links, company_name, web) ==
  IF Len(links) = 0 THEN [ret |-> "", tr |-> << >>]
  ELSE IF ConfidenceAccepts(validate_company_website(Head(links), company_name))
  THEN Bind(_verify_business_website(Head(links), company_name, web, "search"), LAMBDA v :
         IF v.ret THEN [ret |-> Head(links), tr |-> v.tr]
         ELSE After(v.tr, FilterLinks(Tail(links), company_name, web)))
  ELSE FilterLinks(Tail(links), company_name, web)

RECURSIVE SpacesToPlus(_)
SpacesToPlus(s) ==
  IF Len(s) = 0 THEN ""
  ELSE (IF SubSeq(s, 1, 1) = " " THEN "+" ELSE SubSeq(s, 1, 1)) \o SpacesToPlus(SubSeq(s, 2, Len(s)))

SearchUrl(company_name) ==
  "https://html.duckduckgo.com/html/?q="
    \o SpacesToPlus(company_name \o " UK company official website -linkedin -facebook -wikipedia")

\* search: the results-page response; search.links are the unquoted uddg targets
_search_with_quality_filter(company_name, search, web) ==
  After(DelayedGet(SearchUrl(company_name), "search"),
        IF search.status # 200 THEN [ret |-> "", tr |-> << >>]
        ELSE FilterLinks(search.links, company_name, web))

\* a strategy's URL returned without asking the validator
IfValidUnchecked(c, company_name) == c

\* Method 1 .. Method 3 of find_official_website, each with its acceptance test
\* "if website: validation = ...; if validation['valid']: return website"
IfValid(c, company_name) ==
  [c EXCEPT !.ret = IF @ # "" /\ Accepts(validate_company_website(@, company_name))
                    THEN @ ELSE ""]

Method1(company_name, web) ==
  Bind(_construct_and_test_domains(company_name, web), LAMBDA c : IfValid(c, company_name))

Method2(company_name, company_number, ch, web) ==
  IF company_number = "" THEN [ret |-> "", tr |-> << >>]
  ELSE Bind(_extract_website_from_companies_house(company_number, ch, web),
            LAMBDA c : IfValid(c, company_name))

Method3(company_name, search, web) == _search_with_quality_filter(company_name, search, web)

Via(r, strategy) ==
  [ret |-> r.ret, via |-> IF r.ret # "" THEN strategy ELSE "none", tr |-> r.tr]

\* a resolver that runs the three strategies before it looks at their results
find_official_website_all(company_name, company_number, env) ==
  Bind(Method1(company_name, env.web), LAMBDA m1 :
    Bind(Method2(company_name, company_number, env.ch, env.web), LAMBDA m2 :
      After(m1.tr \o m2.tr,
            IF m1.ret # "" THEN [Via(m1, "domain") EXCEPT !.tr = Method3(company_name, env.search, env.web).tr]
            ELSE IF m2.ret # "" THEN [Via(m2, "registry") EXCEPT !.tr = Method3(company_name, env.search, env.web).tr]
            ELSE [Via(Method3(company_name, env.search, env.web), "search") EXCEPT !.tr = @])))

find_official_website(company_name, company_number, env) ==
  Bind(Method1(company_name, env.web), LAMBDA m1 :
    IF m1.ret # "" THEN Via(m1, "domain")
    ELSE Bind(Method2(company_name, company_number, env.ch, env.web), LAMBDA m2 :
      IF m2.ret # "" THEN After(m1.tr, Via(m2, "registry"))
      ELSE After(m1.tr \o m2.tr, Via(Method3(company_name, env.search, env.web), "search"))))

(***************************************************************************)
(* Description, employee counts, address                                   *)
(***************************************************************************)
\* page: the response to the GET of the website; page.desc is what the
\* meta / about-section / paragraph cascade finds in it ("" when nothing)
extract_company_description(url, page) ==
  IF url = "" THEN [ret |-> "", tr |-> << >>]
  ELSE [ ret |-> IF page.status = 0 \/ page.status >= 400 THEN "" ELSE page.desc,
         tr |-> DelayedGet(url, "description") ]

NumPatterns == 10
MinEmployees == 1
MaxEmployees == 5000
MaxAccounts == 6

\* a range test without the upper limit
InRangeNoLimit(num) == MinEmployees <= num

InRange(num) == MinEmployees <= num /\ num <= MaxEmployees

\* "for match in matches": the first match within the range
RECURSIVE ScanMatches(_)
ScanMatches(matches) ==
  IF Len(matches) = 0 THEN ""
  ELSE Bind(ParseInt(Head(matches)), LAMBDA num :
         IF InRange(num) THEN IntToStr(num) ELSE ScanMatches(Tail(matches)))

\* "for pattern in employee_patterns"; found[p] is re.findall(pattern p, text)
RECURSIVE ScanPatterns(_)
ScanPatterns(found) ==
  IF Len(found) = 0 THEN ""
  ELSE Bind(ScanMatches(Head(found)), LAMBDA r :
         IF r # "" THEN r ELSE ScanPatterns(Tail(found)))

PdfUrl(pdf_link) ==
  IF ~StartsWith(pdf_link, "http")
  THEN "https://find-and-update.company-information.service.gov.uk" \o pdf_link
  ELSE pdf_link

NoDoc == [status |-> 0, found |-> [p \in 1..NumPatterns |-> << >>]]

DocOf(docs, pdf_link) == IF pdf_link \in DOMAIN docs THEN docs[pdf_link] ELSE NoDoc

_extract_employees_from_pdf(pdf_link, docs) ==
  Bind(DocOf(docs, pdf_link), LAMBDA doc :
    [ ret |-> IF doc.status # 200 THEN "" ELSE ScanPatterns(doc.found),
      tr |-> DelayedGet(PdfUrl(pdf_link), "employees") ])

Years == << "2024", "2023", "2022" >>

empty_employee_data == [y \in {"2024", "2023", "2022"} |-> ""]

\* re.search(r'20(22|23|24)', s): the leftmost occurrence
RECURSIVE FindYear(_, _)
FindYear(s, i) ==
  IF i + 3 > Len(s) THEN ""
  ELSE IF SubSeq(s, i, i + 3) \in {"2022", "2023", "2024"} THEN SubSeq(s, i, i + 3)
  ELSE FindYear(s, i + 1)

\* "if 'annual accounts' or 'accounts' in desc_text": a non-empty string is true
IsAccountsFilingTruthy(desc_text) == TRUE

IsAccountsFiling(desc_text) ==
  Contains(desc_text, "annual accounts") \/ Contains(desc_text, "accounts")

\* the loop over filing_items that builds account_links
RECURSIVE AccountLinks(_)
\* the account_links entries (none or one) that one filing item adds
AccountLink(item) ==
  IF ~item.h3 THEN << >>
  ELSE Bind(Lower(item.text), LAMBDA desc_text :
         Bind(FindYear(item.datetime \o " " \o desc_text, 1), LAMBDA year :
           IF IsAccountsFiling(desc_text) /\ item.time /\ item.link /\ year # ""
           THEN << [year |-> year, pdf_link |-> item.href, description |-> desc_text] >>
           ELSE << >>))

AccountLinks(items) ==
  IF Len(items) = 0 THEN << >>
  ELSE AccountLink(Head(items)) \o AccountLinks(Tail(items))

WantedYear(year) == year \in {"2024", "2023", "2022"}

\* one iteration of "for year, pdf_link, description in account_links[:6]"
ProcessAccount(employee_data, account, docs) ==
  IF WantedYear(account.year) /\ employee_data[account.year] = ""
  THEN Bind(_extract_employees_from_pdf(account.pdf_link, docs), LAMBDA e :
         [ ret |-> IF e.ret # "" THEN [employee_data EXCEPT ![account.year] = e.ret]
                   ELSE employee_data,
           tr |-> e.tr ])
  ELSE [ret |-> employee_data, tr |-> << >>]

RECURSIVE ProcessAccounts(_, _, _)
ProcessAccounts(accounts, employee_data, docs) ==
  IF Len(accounts) = 0 THEN [ret |-> employee_data, tr |-> << >>]
  ELSE Bind(ProcessAccount(employee_data, Head(accounts), docs), LAMBDA one :
         After(one.tr, ProcessAccounts(Tail(accounts), one.ret, docs)))

\* hist: the filing-history response; hist.items are its filing-history-item divs
get_employee_data_from_accounts(company_number, hist, docs) ==
  After(DelayedGet(FilingHistoryUrl(company_number), "employees"),
        IF hist.status # 200 THEN [ret |-> empty_employee_data, tr |-> << >>]
        ELSE ProcessAccounts(Take(AccountLinks(hist.items), MaxAccounts),
                             empty_employee_data, docs))

CompanyUrl(company_number) ==
  "https://find-and-update.company-information.service.gov.uk/company/" \o company_number

\* addr: the company page response; addr.section: the company-addresses div
\* exists; addr.text its text
get_companies_house_address(company_number, addr) ==
  [ ret |-> IF addr.status # 200 \/ ~addr.section THEN ""
            ELSE JoinSpace(Split(RemoveAll(addr.text, "Registered office address"))),
    tr |-> DelayedGet(CompanyUrl(company_number), "address") ]

(***************************************************************************)
(* enrich_company                                                          *)
(***************************************************************************)
Columns ==
  << "company_url", "description", "employees_2024", "employees_2023",
     "employees_2022", "manufacturing_location" >>

ColumnSet == {Columns[i] : i \in 1..Len(Columns)}

empty_info == [c \in ColumnSet |-> ""]

skip_prefixes == << "ZHEJIANG", "ZHENGZHOU", "ZHENPING", "ZHONGSHAN" >>

\* a test that recognises no prefix
IsSkippedNever(company_name) == FALSE

IsSkipped(company_name) ==
  \E i \in 1..Len(skip_prefixes) : StartsWith(Upper(company_name), skip_prefixes[i])

CompanyName(row) == Strip(row.CompanyName)

\* str(nan) of a missing number is 'nan'
CompanyNumber(row) ==
  LET n == Strip(row.CompanyNumber) IN IF n = "nan" THEN "" ELSE n

\* info.update(employee_data)
UpdateEmployees(info, employee_data) ==
  [info EXCEPT !["employees_2024"] = employee_data["2024"],
               !["employees_2023"] = employee_data["2023"],
               !["employees_2022"] = employee_data["2022"]]

\* the statements of enrich_company, one operator each; every one maps the
\* local state [info, website, tr] of the call to the state after it
SkipStep(st, company_number, addr) ==
  IF company_number # ""
  THEN Bind(get_companies_house_address(company_number, addr), LAMBDA a :
         [st EXCEPT !.info["manufacturing_location"] = a.ret, !.tr = @ \o a.tr])
  ELSE st

\* "website = ...; if website: info['company_url'] = website"
SetWebsite(st, w) ==
  [st EXCEPT !.website = w.ret, !.via = w.via, !.tr = @ \o w.tr,
             !.info["company_url"] = IF w.ret # "" THEN w.ret ELSE @]

WebsiteStep(st, company_name, company_number, env) ==
  Bind(find_official_website(company_name, company_number, env), LAMBDA w : SetWebsite(st, w))

DescriptionStep(st, sic_codes, page) ==
  IF st.website = "" THEN st
  ELSE Bind(extract_company_description(st.website, page), LAMBDA d :
         [st EXCEPT !.tr = @ \o d.tr,
                    !.info["description"] =
                       IF d.ret # "" /\ Accepts(validate_company_description(d.ret, sic_codes))
                       THEN d.ret ELSE @])

\* "info.update(employee_data)"
SetEmployees(st, e) == [st EXCEPT !.info = UpdateEmployees(@, e.ret), !.tr = @ \o e.tr]

EmployeeStep(st, company_number, hist, docs) ==
  IF company_number = "" THEN st
  ELSE Bind(get_employee_data_from_accounts(company_number, hist, docs), LAMBDA e :
         SetEmployees(st, e))

\* a variant that asks for the address only when an employee count was found
AddressStepAfterCount(st, company_number, addr) ==
  IF company_number = "" \/ \A y \in {"2024", "2023", "2022"} : st.info["employees_" \o y] = ""
  THEN st
  ELSE [st EXCEPT !.tr = @ \o get_companies_house_address(company_number, addr).tr,
                  !.info["manufacturing_location"] =
                     get_companies_house_address(company_number, addr).ret]

AddressStep(st, company_number, addr) ==
  IF company_number = "" THEN st
  ELSE Bind(get_companies_house_address(company_number, addr), LAMBDA a :
         [st EXCEPT !.tr = @ \o a.tr,
                    !.info["manufacturing_location"] = IF a.ret # "" THEN a.ret ELSE @])

\* a variant that mines the filings only of a company whose website was found
AfterDescriptionGated(st, company_number) ==
  IF company_number # "" /\ st.website # "" THEN "employees" ELSE "returned"

\* "if company_number:" after the website block: the statement that follows
AfterDescription(st, company_number) ==
  IF company_number # "" THEN "employees" ELSE "returned"

start_state == [info |-> empty_info, website |-> "", via |-> "none", tr |-> << >>]

Raised(st) == [raised |-> TRUE, info |-> st.info, via |-> st.via, tr |-> st.tr]
Returned(st) == [raised |-> FALSE, info |-> st.info, via |-> st.via, tr |-> st.tr]

\* env.fault: where an exception that no inner handler catches is raised inside
\* the call: "entry" (reading the row), "after_website", "after_employees";
\* "none" when the call returns.
FaultPoints == {"none", "entry", "after_website", "after_employees"}

\* the statements after the skip test
EnrichFrom(company_name, company_number, sic_codes, env) ==
  Bind(WebsiteStep(start_state, company_name, company_number, env), LAMBDA s1 :
    IF env.fault = "after_website" THEN Raised(s1)
    ELSE Bind(EmployeeStep(DescriptionStep(s1, sic_codes, env.page),
                           company_number, env.hist, env.docs), LAMBDA s3 :
      IF env.fault = "after_employees" THEN Raised(s3)
      ELSE Returned(AddressStep(s3, company_number, env.addr))))

enrich_company(row, env) ==
  Bind(CompanyName(row), LAMBDA company_name :
    Bind(CompanyNumber(row), LAMBDA company_number :
      IF env.fault = "entry" THEN Raised(start_state)
      ELSE IF IsSkipped(company_name)
      THEN Returned(SkipStep(start_state, company_number, env.addr))
      ELSE EnrichFrom(company_name, company_number, row.SicText, env)))

(***************************************************************************)
(* process_csv: state                                                      *)
(***************************************************************************)
VARIABLES
  input,        \* the table as pd.read_csv loaded it (with the added columns)
  df,           \* the in-memory table
  disk,         \* output_file: [exists, table]
  index,        \* number of rows the loop has handled
  processed,    \* the counter "processed"
  pc,           \* "loop", "done"
  last,         \* what happened to the row handled last
  e_row,        \* SpecEnrich: the row passed to enrich_company
  e_pc,         \* SpecEnrich: the statement enrich_company is at
  e_st,         \* SpecEnrich: its locals [info, website, via, tr]
  e_accounts,   \* SpecEnrich: account_links[:6] still to be processed
  e_data,       \* SpecEnrich: employee_data
  e_doc,        \* SpecEnrich: the accounts document fetched last
  e_links,      \* SpecEnrich: account_links[:6] as the filing history gave it
  e_hist,       \* SpecEnrich: the filing items of the filing-history page
  v_call,       \* SpecValidate: the validator call made last and its result
  r_call        \* SpecResolve: a call of find_official_website, strategy by strategy

batch_vars == << input, df, disk, index, processed, pc, last >>
enrich_vars == << e_row, e_pc, e_st, e_accounts, e_data, e_doc, e_links, e_hist >>
vars == << input, df, disk, index, processed, pc, last,
           e_row, e_pc, e_st, e_accounts, e_data, e_doc, e_links, e_hist, v_call, r_call >>

NumRecords == 4
CheckpointInterval == 3

(***************************************************************************)
(* The inputs of the batch: the table and what the network answers         *)
(***************************************************************************)
Site(text) == [head |-> 200, status |-> 200, text |-> text]

NoSic == << "", "", "", "" >>

BatchInputs ==
  << [CompanyName |-> "Acme Manufacturing Ltd", CompanyNumber |-> "01234567",
      SicText |-> << "25.11 - Manufacture of metal structures", "", "", "" >>],
     [CompanyName |-> "Bright Widgets Limited", CompanyNumber |-> "nan", SicText |-> NoSic],
     [CompanyName |-> " Zhejiang Pump Co., Ltd ", CompanyNumber |-> "09876543", SicText |-> NoSic] >>

InputOf(i) == BatchInputs[((i - 1) % Len(BatchInputs)) + 1]

\* what an earlier run left in the six columns
previous_info ==
  [c \in ColumnSet |->
     CASE c = "company_url" -> "https://www.old-site.co.uk"
       [] c = "description" -> "Description kept from the earlier run"
       [] c = "employees_2024" -> "12"
       [] c = "employees_2023" -> "11"
       [] c = "employees_2022" -> "10"
       [] OTHER -> "1 Old Road Leeds"]

InputRow(i, populated) ==
  [ CompanyName |-> InputOf(i).CompanyName,
    CompanyNumber |-> InputOf(i).CompanyNumber,
    SicText |-> InputOf(i).SicText,
    cols |-> IF populated THEN previous_info ELSE empty_info ]

\* the first k rows carry the columns of an earlier run
InputTable(k) == [i \in 1..NumRecords |-> InputRow(i, i <= k)]

AccountsItem(year, href) ==
  [ h3 |-> TRUE, text |-> "Total exemption full accounts made up to 31 March " \o year,
    time |-> TRUE, datetime |-> year \o "-06-30", link |-> TRUE, href |-> href ]

AnnualAccountsItem(year, href) ==
  [ h3 |-> TRUE, text |-> "Annual accounts for a small company made up to 31 March " \o year,
    time |-> TRUE, datetime |-> year \o "-06-30", link |-> TRUE, href |-> href ]

DocFound(p, matches) ==
  [status |-> 200, found |-> [q \in 1..NumPatterns |-> IF q = p THEN matches ELSE << >>]]

AllDown ==
  [ web |-> << >>, ch |-> [status |-> 0, matches |-> << >>],
    search |-> [status |-> 0, links |-> << >>], page |-> [status |-> 0, desc |-> ""],
    hist |-> [status |-> 0, items |-> << >>], docs |-> << >>,
    addr |-> [status |-> 0, section |-> FALSE, text |-> ""], fault |-> "none" ]

\* the network answers for a company whose guessed domain number v is its site
GoodEnv(company_name, v) ==
  LET cands == DomainCandidates(DomainWords(company_name))
      url == "https://www." \o cands[v]
  IN [ web |-> (url :> Site(company_name \o ": a manufacturing company. Contact us")),
       ch |-> [status |-> 200, matches |-> << >>],
       search |-> [status |-> 200, links |-> << >>],
       page |-> [status |-> 200,
                 desc |-> IF v = 1 THEN "Precision parts made to order since 1950"
                          ELSE "Company engaged in manufacture of parts"],
       hist |-> [status |-> 200, items |-> << AccountsItem("2023", "/doc/1") >>],
       docs |-> ("/doc/1" :> DocFound(v, << "12000", IF v = 1 THEN "25" ELSE "40" >>)),
       addr |-> [status |-> 200, section |-> TRUE,
                 text |-> IF v = 1 THEN "Registered office address  1 Mill Lane   Leeds "
                          ELSE "Registered office address 2 Dock Street Hull"],
       fault |-> "none" ]

WithFault(env, f) == [env EXCEPT !.fault = f]

BatchEnvs(i) ==
  {WithFault(AllDown, f) : f \in {"none", "entry"}}
    \cup {WithFault(GoodEnv(InputOf(i).CompanyName, v), f) : v \in 1..2, f \in FaultPoints}

\* the outcomes enrich_company can have for row i (without the traces)
Outcome(r) == [raised |-> r.raised, info |-> r.info]

BatchOutcomes ==
  [i \in 1..Len(BatchInputs) |-> {Outcome(enrich_company(InputOf(i), e)) : e \in BatchEnvs(i)}]

OutcomesOf(i) == BatchOutcomes[((i - 1) % Len(BatchInputs)) + 1]

\* find_official_website has not been called
NoResolve == [pc |-> "idle"]

\* no validator has been called yet
NoCall ==
  [ op |-> "none", url |-> "", name |-> "", description |-> "", sic |-> << >>,
    verdict |-> [valid |-> FALSE, reason |-> "", confidence |-> 0], stored |-> "" ]

\* no accounts document has been requested yet
NoFetch == [fetched |-> FALSE, year |-> "", link |-> "", doc |-> NoDoc]

(***************************************************************************)
(* process_csv: the loop                                                   *)
(***************************************************************************)
\* a merge without the test of the new value
WritesAlways(value) == TRUE

\* "if value and str(value).strip(): df.at[index, key] = str(value).strip()"
Writes(value) == value # "" /\ Strip(value) # ""

MergeValue(current, value) == IF Writes(value) THEN Strip(value) ELSE current

\* "for key, value in enriched_info.items()", from column i on; fail_at is the
\* column whose df.at assignment raises (0: none does)
RECURSIVE MergeFrom(_, _, _, _)
MergeFrom(cols, info, i, fail_at) ==
  IF i > Len(Columns) THEN [cols |-> cols, raised |-> FALSE]
  ELSE IF Writes(info[Columns[i]]) /\ fail_at = i THEN [cols |-> cols, raised |-> TRUE]
  ELSE MergeFrom([cols EXCEPT ![Columns[i]] = MergeValue(@, info[Columns[i]])],
                 info, i + 1, fail_at)

Merge(cols, info, fail_at) == MergeFrom(cols, info, 1, fail_at)

\* the columns whose assignment may raise in a run (0: none)
MergeFaults == {0, 4, 6}

SaveDue(count) == count % CheckpointInterval = 0

Saved(table) == [exists |-> TRUE, table |-> table]

\* a handler that ends the loop
AfterFailureStops == "aborted"

\* "except Exception: ... continue"
AfterFailure == "loop"

Init ==
  /\ \E k \in 0..NumRecords : input = InputTable(k)
  /\ df = input
  /\ disk = [exists |-> FALSE, table |-> << >>]
  /\ index = 0
  /\ processed = 0
  /\ pc = "loop"
  /\ last = [i |-> 0, raised |-> FALSE, merge_raised |-> FALSE, info |-> empty_info]
  /\ e_row = InputOf(1)
  /\ e_pc = "idle"
  /\ e_st = start_state
  /\ e_accounts = << >>
  /\ e_data = empty_employee_data
  /\ e_doc = NoFetch
  /\ e_links = << >>
  /\ e_hist = << >>
  /\ v_call = NoCall
  /\ r_call = NoResolve

\* one iteration of "for index, row in df.iterrows()": the whole try body
\* and its handler
ProcessRecord ==
  /\ pc = "loop"
  /\ index < NumRecords
  /\ \E r \in OutcomesOf(index + 1), fail_at \in MergeFaults :
       LET i == index + 1
           m == Merge(df[i].cols, r.info, fail_at)
           merged == [df EXCEPT ![i].cols = m.cols]
       IN /\ index' = i
          /\ last' = [i |-> i, raised |-> r.raised,
                      merge_raised |-> ~r.raised /\ m.raised, info |-> r.info]
          /\ IF r.raised
             THEN /\ pc' = AfterFailure
                  /\ UNCHANGED << df, processed, disk >>
             ELSE IF m.raised
             THEN /\ pc' = AfterFailure
                  /\ df' = merged
                  /\ UNCHANGED << processed, disk >>
             ELSE /\ pc' = "loop"
                  /\ df' = merged
                  /\ processed' = processed + 1
                  /\ disk' = IF SaveDue(processed + 1) THEN Saved(merged) ELSE disk
  /\ UNCHANGED << input, enrich_vars, v_call, r_call >>

\* "df.to_csv(output_file, index=False)" after the loop
FinalSave ==
  /\ pc = "loop"
  /\ index = NumRecords
  /\ disk' = Saved(df)
  /\ pc' = "done"
  /\ UNCHANGED << input, df, index, processed, last, enrich_vars, v_call, r_call >>

Next == ProcessRecord \/ FinalSave

Spec == Init /\ [][Next]_vars

\* the loop with the scheduling of a sequential program: a step that can be
\* taken is taken (every request has a timeout)
SpecLive == Spec /\ WF_vars(Next)

(***************************************************************************)
(* process_csv from its first statement, with a table that may fail to     *)
(* load or to be written                                                   *)
(***************************************************************************)
\* a handler that lets the exception go on to the caller
OuterHandlerReraises == "raised"

\* "except Exception as e: ... return None" of the outer try
OuterHandler == "failed"

InitRun ==
  /\ \E k \in 0..NumRecords : input = InputTable(k)
  /\ df = << >>
  /\ disk = [exists |-> FALSE, table |-> << >>]
  /\ index = 0
  /\ processed = 0
  /\ pc = "start"
  /\ last = [i |-> 0, raised |-> FALSE, merge_raised |-> FALSE, info |-> empty_info]
  /\ e_row = InputOf(1)
  /\ e_pc = "idle"
  /\ e_st = start_state
  /\ e_accounts = << >>
  /\ e_data = empty_employee_data
  /\ e_doc = NoFetch
  /\ e_links = << >>
  /\ e_hist = << >>
  /\ v_call = NoCall
  /\ r_call = NoResolve

\* "df = pd.read_csv(input_file)" and the added columns
LoadTable ==
  /\ pc = "start"
  /\ df' = input
  /\ pc' = "loop"
  /\ UNCHANGED << input, disk, index, processed, last, enrich_vars, v_call, r_call >>

\* pd.read_csv raises: the outer handler returns None
LoadFails ==
  /\ pc = "start"
  /\ pc' = OuterHandler
  /\ UNCHANGED << input, df, disk, index, processed, last, enrich_vars, v_call, r_call >>

\* an iteration whose checkpoint write "df.to_csv(output_file, index=False)"
\* raises: the record is merged and counted, the handler of the inner try
\* logs and continues
CheckpointFails ==
  /\ pc = "loop"
  /\ index < NumRecords
  /\ SaveDue(processed + 1)
  /\ \E r \in OutcomesOf(index + 1) :
       /\ ~r.raised
       /\ df' = [df EXCEPT ![index + 1].cols = Merge(@, r.info, 0).cols]
       /\ last' = [i |-> index + 1, raised |-> FALSE, merge_raised |-> FALSE, info |-> r.info]
  /\ index' = index + 1
  /\ processed' = processed + 1
  /\ pc' = AfterFailure
  /\ UNCHANGED << input, disk, enrich_vars, v_call, r_call >>

\* the write after the loop raises: the outer handler returns None
FinalSaveFails ==
  /\ pc = "loop"
  /\ index = NumRecords
  /\ pc' = OuterHandler
  /\ UNCHANGED << input, df, disk, index, processed, last, enrich_vars, v_call, r_call >>

NextRun ==
  \/ LoadTable
  \/ LoadFails
  \/ ProcessRecord
  \/ CheckpointFails
  \/ FinalSave
  \/ FinalSaveFails

SpecRun == InitRun /\ [][NextRun]_vars

(***************************************************************************)
(* enrich_company, statement by statement: the inputs                      *)
(***************************************************************************)
MaxLive == 2

EnrichInputs ==
  BatchInputs \o << [CompanyName |-> "Forum Ltd", CompanyNumber |-> "00112233",
                     SicText |-> NoSic],
                    [CompanyName |-> "zhongshan lighting co ltd", CompanyNumber |-> "nan",
                     SicText |-> NoSic] >>

\* what the pages of a host answer: head is the status of HEAD (0: raised),
\* status the status of GET, text the page text
SiteKinds == {"named", "numbered", "parked", "nohead", "broken"}

NamedText(row) == CompanyName(row) \o ": products, contact"

SiteOf(kind, row) ==
  CASE kind = "named" -> Site(NamedText(row))
    [] kind = "numbered" ->
         Site("Company " \o CompanyNumber(row) \o " services")
    [] kind = "parked" -> Site("Domain for sale")
    [] kind = "nohead" -> [head |-> 405, status |-> 200, text |-> NamedText(row)]
    [] OTHER -> [head |-> 200, status |-> 503, text |-> ""]

SeqSet(seq) == {seq[i] : i \in 1..Len(seq)}

\* hosts the filing-history page of the company mentions
RegistryMatches(words) ==
  << "ledgerbooks.co.uk" >> \o (IF Len(words) > 0 THEN << words[1] \o "group.com" >> ELSE << >>)

\* result links of the search page
SearchLinks(words) ==
  IF Len(words) = 0
  THEN << "https://www.linkedin.com/company/x", "https://www.precision-parts.com" >>
  ELSE << "https://www.linkedin.com/company/" \o words[1],
          "ftp://" \o words[1] \o ".com",
          "https://" \o words[1] \o ".org/about",
          "https://www." \o DomainCandidates(words)[1] >>

\* the URLs a strategy may request for a company with these words
UrlPool(words) ==
  {"https://www." \o c :
      c \in (IF Len(words) = 0 THEN {}
             ELSE SeqSet(Take(DomainCandidates(words), MaxCandidates)))
              \cup SeqSet(RegistryMatches(words))}
    \cup {u \in SeqSet(SearchLinks(words)) : StartsWith(u, "https://") /\ ~Contains(u, "linkedin")}

\* the webs in which at most MaxLive of the hosts answer
Webs(row) ==
  UNION { [live -> {SiteOf(k, row) : k \in SiteKinds}] :
            live \in {u \in SUBSET UrlPool(DomainWords(CompanyName(row))) :
                        Cardinality(u) <= MaxLive} }

WebsiteEnvs(row) ==
  [ web : Webs(row),
    ch : { [status |-> 0, matches |-> << >>],
           [status |-> 200, matches |-> RegistryMatches(DomainWords(CompanyName(row)))] },
    search : { [status |-> 0, links |-> << >>],
               [status |-> 200, links |-> SearchLinks(DomainWords(CompanyName(row)))] } ]

PageResponses ==
  { [status |-> 0, desc |-> ""],
    [status |-> 200, desc |-> "Precision parts made to order since 1950"],
    [status |-> 200, desc |-> "Company engaged in manufacture of metal structures"] }

OtherItem ==
  [ h3 |-> TRUE, text |-> "Confirmation statement made on 1 May 2023 with no updates",
    time |-> TRUE, datetime |-> "2023-05-02", link |-> TRUE, href |-> "/doc/0" ]

HistResponses ==
  { [status |-> 404, items |-> << >>],
    [status |-> 200,
     items |-> << AccountsItem("2023", "/doc/1"), OtherItem, AccountsItem("2021", "/doc/9"),
                  AccountsItem("2023", "/doc/2"), AnnualAccountsItem("2024", "/doc/3") >>] }

\* what re.findall finds in a document, pattern by pattern
DocResponses ==
  { NoDoc,
    DocFound(1, << "12000", "25" >>),
    DocFound(2, << "6000", "0" >>),
    [status |-> 200,
     found |-> [q \in 1..NumPatterns |-> CASE q = 1 -> << "12000" >>
                                           [] q = 3 -> << "0", "0040" >>
                                           [] OTHER -> << >>]] }

AddrResponses ==
  { [status |-> 0, section |-> FALSE, text |-> ""],
    [status |-> 200, section |-> FALSE, text |-> ""],
    [status |-> 200, section |-> TRUE,
     text |-> "Registered office address  1 Mill Lane   Leeds "] }

(***************************************************************************)
(* enrich_company, statement by statement: the steps                       *)
(***************************************************************************)
InitEnrich ==
  /\ input = InputTable(0)
  /\ df = input
  /\ disk = [exists |-> FALSE, table |-> << >>]
  /\ index = 0
  /\ processed = 0
  /\ pc = "enrich"
  /\ last = [i |-> 0, raised |-> FALSE, merge_raised |-> FALSE, info |-> empty_info]
  /\ e_row \in SeqSet(EnrichInputs)
  /\ e_pc = "start"
  /\ e_st = start_state
  /\ e_accounts = << >>
  /\ e_data = empty_employee_data
  /\ e_doc = NoFetch
  /\ e_links = << >>
  /\ e_hist = << >>
  /\ v_call = NoCall
  /\ r_call = NoResolve

\* "if any(company_name.upper().startswith(prefix) ...): ... return info"
SkipCompany ==
  /\ e_pc = "start"
  /\ IsSkipped(CompanyName(e_row))
  /\ \E addr \in AddrResponses :
       e_st' = SkipStep(e_st, CompanyNumber(e_row), addr)
  /\ e_pc' = "returned"
  /\ UNCHANGED << batch_vars, e_row, e_accounts, e_data, e_doc, e_links, e_hist, v_call, r_call >>

\* "website = self.find_official_website(...); if website: info[...] = website"
FindWebsite ==
  /\ e_pc = "start"
  /\ ~IsSkipped(CompanyName(e_row))
  /\ \E env \in WebsiteEnvs(e_row) :
       e_st' = WebsiteStep(e_st, CompanyName(e_row), CompanyNumber(e_row), env)
  /\ e_pc' = "description"
  /\ UNCHANGED << batch_vars, e_row, e_accounts, e_data, e_doc, e_links, e_hist, v_call, r_call >>

\* "description = self.extract_company_description(...)" and its validation
ExtractDescription ==
  /\ e_pc = "description"
  /\ \E page \in PageResponses :
       e_st' = DescriptionStep(e_st, e_row.SicText, page)
  /\ e_pc' = AfterDescription(e_st', CompanyNumber(e_row))
  /\ UNCHANGED << batch_vars, e_row, e_accounts, e_data, e_doc, e_links, e_hist, v_call, r_call >>

\* get_employee_data_from_accounts up to the loop over account_links[:6]
FetchFilingHistory ==
  /\ e_pc = "employees"
  /\ \E hist \in HistResponses :
       /\ e_accounts' = IF hist.status # 200 THEN << >>
                        ELSE Take(AccountLinks(hist.items), MaxAccounts)
       /\ e_hist' = IF hist.status # 200 THEN << >> ELSE hist.items
  /\ e_st' = [e_st EXCEPT !.tr = @ \o DelayedGet(FilingHistoryUrl(CompanyNumber(e_row)),
                                                 "employees")]
  /\ e_data' = empty_employee_data
  /\ e_pc' = "filings"
  /\ e_links' = e_accounts'
  /\ UNCHANGED << batch_vars, e_row, e_doc, v_call, r_call >>

\* one iteration of the loop over account_links[:6]
ProcessFiling ==
  /\ e_pc = "filings"
  /\ e_accounts # << >>
  /\ \E doc \in DocResponses :
       LET account == Head(e_accounts)
           one == ProcessAccount(e_data, account, (account.pdf_link :> doc))
       IN /\ e_data' = one.ret
          /\ e_st' = [e_st EXCEPT !.tr = @ \o one.tr]
          /\ e_doc' = IF one.tr = << >> THEN NoFetch
                      ELSE [fetched |-> TRUE, year |-> account.year,
                            link |-> account.pdf_link, doc |-> doc]
  /\ e_accounts' = Tail(e_accounts)
  /\ UNCHANGED << batch_vars, e_row, e_pc, e_links, e_hist, v_call, r_call >>

\* "return employee_data" and "info.update(employee_data)"
UpdateInfo ==
  /\ e_pc = "filings"
  /\ e_accounts = << >>
  /\ e_st' = SetEmployees(e_st, [ret |-> e_data, tr |-> << >>])
  /\ e_pc' = "address"
  /\ UNCHANGED << batch_vars, e_row, e_accounts, e_data, e_doc, e_links, e_hist, v_call, r_call >>

\* "address = self.get_companies_house_address(...)" and "return info"
GetAddress ==
  /\ e_pc = "address"
  /\ \E addr \in AddrResponses :
       e_st' = AddressStep(e_st, CompanyNumber(e_row), addr)
  /\ e_pc' = "returned"
  /\ UNCHANGED << batch_vars, e_row, e_accounts, e_data, e_doc, e_links, e_hist, v_call, r_call >>

NextEnrich ==
  \/ SkipCompany
  \/ FindWebsite
  \/ ExtractDescription
  \/ FetchFilingHistory
  \/ ProcessFiling
  \/ UpdateInfo
  \/ GetAddress

SpecEnrich == InitEnrich /\ [][NextEnrich]_vars

(***************************************************************************)
(* find_official_website, strategy by strategy, with the answers of the    *)
(* network kept in the state                                               *)
(***************************************************************************)
ResolveInputs ==
  { [CompanyName |-> "Acme Manufacturing Ltd", CompanyNumber |-> "01234567", SicText |-> NoSic],
    [CompanyName |-> "Acme Precision Tools Ltd", CompanyNumber |-> "nan", SicText |-> NoSic],
    [CompanyName |-> "Forum Ltd", CompanyNumber |-> "00112233", SicText |-> NoSic],
    [CompanyName |-> "A.B. C.D. Ltd", CompanyNumber |-> "00445566", SicText |-> NoSic],
    [CompanyName |-> "A.B. C.D. Ltd", CompanyNumber |-> "nan", SicText |-> NoSic] }

\* the registry and the search engine answer; at most MaxLive hosts are up
ResolveEnvs(row) ==
  [ web : Webs(row),
    ch : { [status |-> 200, matches |-> RegistryMatches(DomainWords(CompanyName(row)))] },
    search : { [status |-> 200, links |-> SearchLinks(DomainWords(CompanyName(row)))] } ]

InitResolve ==
  /\ input = InputTable(0)
  /\ df = input
  /\ disk = [exists |-> FALSE, table |-> << >>]
  /\ index = 0
  /\ processed = 0
  /\ pc = "resolve"
  /\ last = [i |-> 0, raised |-> FALSE, merge_raised |-> FALSE, info |-> empty_info]
  /\ e_row = InputOf(1)
  /\ e_pc = "idle"
  /\ e_st = start_state
  /\ e_accounts = << >>
  /\ e_data = empty_employee_data
  /\ e_doc = NoFetch
  /\ e_links = << >>
  /\ e_hist = << >>
  /\ v_call = NoCall
  /\ \E row \in ResolveInputs : \E env \in ResolveEnvs(row) :
       r_call = [ pc |-> "domain", name |-> CompanyName(row), number |-> CompanyNumber(row),
                  env |-> env, m1 |-> "", m2 |-> "", m3 |-> "",
                  ret |-> "", via |-> "none", tr |-> << >> ]

\* a strategy has run with result m: return its URL or go on to the next one
Continue(r, m, strategy, next) ==
  [r EXCEPT !.tr = @ \o m.tr,
            !.ret = m.ret,
            !.via = IF m.ret # "" THEN strategy ELSE "none",
            !.pc = IF m.ret # "" \/ next = "" THEN "returned" ELSE next]

\* Method 1: "website = self._construct_and_test_domains(...)" and its test
GuessDomain ==
  /\ r_call.pc = "domain"
  /\ r_call' = Bind(Method1(r_call.name, r_call.env.web), LAMBDA m :
                  [Continue(r_call, m, "domain", "registry") EXCEPT !.m1 = m.ret])
  /\ UNCHANGED << batch_vars, enrich_vars, v_call >>

\* Method 2: "if company_number: website = self._extract_website_from_..."
MineRegistry ==
  /\ r_call.pc = "registry"
  /\ r_call' = Bind(Method2(r_call.name, r_call.number, r_call.env.ch, r_call.env.web),
                    LAMBDA m : [Continue(r_call, m, "registry", "search") EXCEPT !.m2 = m.ret])
  /\ UNCHANGED << batch_vars, enrich_vars, v_call >>

\* Method 3: "website = self._search_with_quality_filter(...)", then return
SearchWeb ==
  /\ r_call.pc = "search"
  /\ r_call' = Bind(Method3(r_call.name, r_call.env.search, r_call.env.web),
                    LAMBDA m : [Continue(r_call, m, "search", "") EXCEPT !.m3 = m.ret])
  /\ UNCHANGED << batch_vars, enrich_vars, v_call >>

NextResolve == GuessDomain \/ MineRegistry \/ SearchWeb

SpecResolve == InitResolve /\ [][NextResolve]_vars

\* the three steps together are find_official_website
ResolveIsFind ==
  r_call.pc = "returned" =>
    [ret |-> r_call.ret, via |-> r_call.via, tr |-> r_call.tr]
      = find_official_website(r_call.name, r_call.number, r_call.env)

(***************************************************************************)
(* QualityValidator called on its own                                      *)
(***************************************************************************)
ValidateNames ==
  { "Acme Manufacturing Ltd", "Bright Widgets Limited", "Acme Precision Tools Ltd",
    "AB Ltd", "Forum Ltd", "LinkedIn Ltd", " Zhejiang Pump Co., Ltd " }

ValidateUrls ==
  { "", "www.acme.co.uk", "ftp://acme.com",
    "http://example.org", "https://www.acmemanufacturing.co.uk", "https://www.acme.co.uk",
    "https://www.acmeprecisiontools.co.uk/about", "https://www.brightwidgets.com/",
    "https://ab.com", "https://acme.io", "https://www.zhejiang-pump.org",
    "https://uk.linkedin.com/company/acme", "https://www.LinkedIn.com/in/forum",
    "https://www.linkedin.com.acme.net/", "https://www.forum.co.uk", "https://acme.gov.uk",
    "http://acme@example.org", "http://example.org:8080/acme", "https://www.acme.com:443" }

ValidateDescriptions ==
  { "", "Precision parts made to order since 1950",
    "Company engaged in manufacture of metal structures",
    "Company engaged in Manufacture of Metal Structures and tanks",
    "Company engaged in manufacture of metal",
    "Company engaged in metal metal metal metal metal",
    "Manufacture of metal structures is our trade",
    "We are a Company engaged in manufacture of metal structures",
    "Company engaged in building boats" }

ValidateSics ==
  { NoSic,
    << "25.11 - Manufacture of metal structures", "", "", "" >>,
    << "25.11 - Manufacture of metal structures", "25.29 - Manufacture of other tanks",
       "nan", "nan" >> }

\* urlparse(url).hostname: the netloc without userinfo and port, lower-cased
RECURSIVE LastAt(_, _)
LastAt(s, i) == IF i = 0 THEN 0 ELSE IF Char(s, i) = "@" THEN i ELSE LastAt(s, i - 1)

Hostname(url) ==
  Bind(Netloc(url), LAMBDA netloc :
    Bind(SubSeq(netloc, LastAt(netloc, Len(netloc)) + 1, Len(netloc)), LAMBDA hostport :
      Lower(IF FindColon(hostport, 1) = 0 THEN hostport
            ELSE SubSeq(hostport, 1, FindColon(hostport, 1) - 1))))

InitValidate ==
  /\ input = InputTable(0)
  /\ df = input
  /\ disk = [exists |-> FALSE, table |-> << >>]
  /\ index = 0
  /\ processed = 0
  /\ pc = "validate"
  /\ last = [i |-> 0, raised |-> FALSE, merge_raised |-> FALSE, info |-> empty_info]
  /\ e_row = InputOf(1)
  /\ e_pc = "idle"
  /\ e_st = start_state
  /\ e_accounts = << >>
  /\ e_data = empty_employee_data
  /\ e_doc = NoFetch
  /\ e_links = << >>
  /\ e_hist = << >>
  /\ v_call = NoCall
  /\ r_call = NoResolve

\* a call of validate_company_website
ValidateWebsite ==
  /\ pc = "validate"
  /\ \E url \in ValidateUrls, company_name \in ValidateNames :
       v_call' = [NoCall EXCEPT !.op = "website", !.url = url, !.name = company_name,
                                !.verdict = validate_company_website(url, company_name)]
  /\ UNCHANGED << batch_vars, enrich_vars, r_call >>

\* a call of validate_company_description
ValidateDescription ==
  /\ pc = "validate"
  /\ \E description \in ValidateDescriptions, sic_codes \in ValidateSics :
       v_call' = [NoCall EXCEPT !.op = "description", !.description = description,
                                !.sic = sic_codes,
                                !.verdict = validate_company_description(description, sic_codes)]
  /\ UNCHANGED << batch_vars, enrich_vars, r_call >>

\* the description block of enrich_company for a record whose website was
\* found: "description = ...; if description: ... if validation['valid']:
\* info['description'] = description"
StoreDescription ==
  /\ pc = "validate"
  /\ \E description \in ValidateDescriptions, sic_codes \in ValidateSics,
        status \in {200, 404} :
       v_call' = [NoCall EXCEPT
                    !.op = "store", !.url = "https://www.acmemanufacturing.co.uk",
                    !.description = IF status = 200 THEN description ELSE "",
                    !.sic = sic_codes,
                    !.stored =
                       DescriptionStep([start_state EXCEPT !.website = "https://www.acmemanufacturing.co.uk"],
                                       sic_codes,
                                       [status |-> status, desc |-> description]).info["description"]]
  /\ UNCHANGED << batch_vars, enrich_vars, r_call >>

NextValidate == ValidateWebsite \/ ValidateDescription \/ StoreDescription

SpecValidate == InitValidate /\ [][NextValidate]_vars

(***************************************************************************)
(* Properties of process_csv                                               *)
(***************************************************************************)
\* C1: the merge leaves every column that already holds a non-empty value
\* unchanged, whatever the enrichment result carries; it writes a column only
\* when the column is empty and the new value is not.
C1_FillEmptyMerge ==
  [][\A i \in 1..NumRecords : \A c \in ColumnSet :
        df[i].cols[c] # "" => df'[i].cols[c] = df[i].cols[c]]_vars

\* C2: a record that came into the run with all six columns populated keeps
\* the value of every one of them, whatever the fetches of this run return.
C2_RerunKeepsPopulated ==
  \A i \in 1..NumRecords :
    (\A c \in ColumnSet : input[i].cols[c] # "") =>
      (\A c \in ColumnSet : df[i].cols[c] = input[i].cols[c])

\* C3: right after the record with 0-based index i*K - 1 was handled, the
\* persisted table holds the enrichment of the first i*K records and the later
\* records as they were loaded, whatever happened to each record.
C3_CheckpointContent ==
  (pc = "loop" /\ index >= 1 /\ index % CheckpointInterval = 0) =>
    /\ disk.exists
    /\ \A j \in 1..NumRecords :
         disk.table[j] = IF j <= index THEN df[j] ELSE input[j]

\* C4: the records whose merged enrichment the persisted table does not hold
\* are always fewer than one checkpoint interval, and none once the batch is done.
C4_BoundedLoss ==
  LET persisted == IF disk.exists THEN disk.table ELSE input
      unsaved == {i \in 1..NumRecords : df[i].cols # persisted[i].cols}
  IN /\ Cardinality(unsaved) < CheckpointInterval
     /\ pc = "done" => unsaved = {}

\* C7: an exception raised while a record is enriched or merged stays inside
\* the loop: the loop goes on to the next record, no other record is touched,
\* the records not yet reached are as loaded, and the batch reaches the final
\* write of the whole table.
C7_ErrorBoundary ==
  /\ [](/\ pc \in {"loop", "done"}
        /\ \A j \in 1..NumRecords : j > index => df[j] = input[j]
        /\ pc = "done" => (index = NumRecords /\ disk = Saved(df)))
  /\ [][index' # index =>
          /\ index' = index + 1
          /\ \A j \in 1..NumRecords : j # index' => df'[j] = df[j]
          /\ (last'.raised \/ last'.merge_raised) => pc' = "loop"]_vars
  /\ <>(pc = "done")

\* C7 happens: the batch is done, a record failed on the way and the last
\* record was merged after it
C7_Witness ==
  /\ pc = "done"
  /\ processed < NumRecords - 1
  /\ last.i = NumRecords
  /\ ~last.raised /\ ~last.merge_raised
  /\ df[NumRecords].cols # input[NumRecords].cols

\* C8: when an exception ends the handling of a record, the row holds every
\* value the sub-steps had found before it.
C8_PartialSurvives ==
  (last.i >= 1 /\ (last.raised \/ last.merge_raised)) =>
    \A c \in ColumnSet :
      Writes(last.info[c]) => df[last.i].cols[c] = Strip(last.info[c])

(***************************************************************************)
(* Properties of enrich_company                                            *)
(***************************************************************************)
\* C5: a non-empty company_url in the result is a URL the validator accepts
\* for the company name: http scheme, host not blacklisted, an accepted
\* suffix, and a word of the name in the host when the name has words.
C5_ValidatedUrl ==
  LET url == e_st.info["company_url"]
      domain == Lower(Netloc(url))
      words == ValidatorWords(CompanyName(e_row))
  IN url # "" =>
       /\ Accepts(validate_company_website(url, CompanyName(e_row)))
       /\ StartsWith(url, "http")
       /\ ~IsBlacklisted(domain)
       /\ HasBusinessSuffix(domain)
       /\ Len(words) = 0 \/ \E i \in 1..Len(words) : Contains(domain, words[i])

\* C5 happens: the registry strategy produced the URL of the result
C5_Witness ==
  /\ e_pc = "returned"
  /\ e_st.via = "registry"
  /\ e_st.info["company_url"] # ""

\* C6: every stored employee count is an integer from 1 to 5000, and the value
\* a fetched document yields is its first match within that range, in the
\* order of the patterns and of the matches of a pattern (none: nothing is
\* stored and the year stays open for a later filing).
C6_EmployeeRange ==
  LET plausible(v) == v = "" \/ (1 <= ParseInt(v) /\ ParseInt(v) <= 5000)
      hits(doc) == {pm \in (1..NumPatterns) \X (1..2) :
                      /\ pm[2] <= Len(doc.found[pm[1]])
                      /\ 1 <= ParseInt(doc.found[pm[1]][pm[2]])
                      /\ ParseInt(doc.found[pm[1]][pm[2]]) <= 5000}
      first(doc) == CHOOSE pm \in hits(doc) :
                      \A o \in hits(doc) : pm[1] < o[1] \/ (pm[1] = o[1] /\ pm[2] <= o[2])
  IN /\ \A y \in DOMAIN e_data : plausible(e_data[y])
     /\ \A c \in {"employees_2024", "employees_2023", "employees_2022"} :
          plausible(e_st.info[c])
     /\ e_doc.fetched =>
          IF e_doc.doc.status # 200 \/ hits(e_doc.doc) = {}
          THEN e_data[e_doc.year] = ""
          ELSE ParseInt(e_data[e_doc.year])
                 = ParseInt(e_doc.doc.found[first(e_doc.doc)[1]][first(e_doc.doc)[2]])

\* C6 happens: the first 2023 filing yielded nothing, the second one was
\* fetched, its match 12000 was passed over and 25 was stored
C6_Witness ==
  /\ e_doc.fetched
  /\ e_doc.link = "/doc/2"
  /\ e_doc.doc.found[1] = << "12000", "25" >>
  /\ e_data["2023"] = "25"

\* C9: every HEAD and every GET of a run comes right after a random_delay of
\* its own, on every path.
C9_DelayBeforeRequest ==
  \A i \in 1..Len(e_st.tr) :
    e_st.tr[i].k \in {"head", "get"} => (i > 1 /\ e_st.tr[i - 1].k = "delay")

\* C9 happens: a run that found no website made five requests or more
C9_Witness ==
  /\ e_pc = "returned"
  /\ e_st.info["company_url"] = ""
  /\ Cardinality({i \in 1..Len(e_st.tr) : e_st.tr[i].k \in {"head", "get"}}) >= 5

\* C10: the resolver returns the URL of the first strategy that yields an
\* accepted one and issues no request of a later strategy; a strategy runs
\* only after the earlier ones ended without a URL, and the result is empty
\* exactly when all of them did.
C10_FirstHitWins ==
  LET at(by) == {i \in 1..Len(e_st.tr) : e_st.tr[i].by = by}
      before(a, b) == \A i \in at(a), j \in at(b) : i < j
  IN (e_pc # "start" /\ ~IsSkipped(CompanyName(e_row))) =>
       /\ e_st.via = "domain" => (at("registry") = {} /\ at("search") = {})
       /\ e_st.via = "registry" => at("search") = {}
       /\ before("domain", "registry") /\ before("registry", "search")
       /\ before("domain", "search")
       /\ at("search") # {} => (CompanyNumber(e_row) # "" => at("registry") # {})
       /\ e_st.via = "none" <=> e_st.website = ""
       /\ e_st.website = "" => at("search") # {}
       /\ e_st.info["company_url"] = e_st.website

\* C10 happens: domain construction ended without a URL and the registry
\* strategy returned one
C10_Witness ==
  /\ e_st.via = "registry"
  /\ \E i \in 1..Len(e_st.tr) : e_st.tr[i].k = "head" /\ e_st.tr[i].by = "domain"

(***************************************************************************)
(* Properties of enrich_company: what is mined for which record            *)
(***************************************************************************)
\* the requests (HEAD or GET) of a trace
Requests(tr) == {i \in 1..Len(tr) : tr[i].k \in {"head", "get"}}

\* C11: for a record whose name starts, in any case, with ZHEJIANG, ZHENGZHOU,
\* ZHENPING or ZHONGSHAN, every request enrich_company issues is the fetch of
\* the company detail page for the address, there is at most one, and none
\* without a registry number; company_url, description and the three
\* employees fields of the result stay empty.
C11_SkipRule ==
  (\E p \in {"ZHEJIANG", "ZHENGZHOU", "ZHENPING", "ZHONGSHAN"} :
      StartsWith(Upper(CompanyName(e_row)), p))
    => /\ \A i \in 1..Len(e_st.tr) : e_st.tr[i].by = "address"
       /\ \A i \in Requests(e_st.tr) :
             /\ e_st.tr[i].k = "get"
             /\ e_st.tr[i].url = CompanyUrl(CompanyNumber(e_row))
       /\ Cardinality(Requests(e_st.tr)) <= 1
       /\ CompanyNumber(e_row) = "" => e_st.tr = << >>
       /\ \A c \in ColumnSet \ {"manufacturing_location"} : e_st.info[c] = ""
       /\ e_pc \in {"start", "returned"}

C11_Witness ==
  /\ e_pc = "returned"
  /\ CompanyName(e_row) = "Zhejiang Pump Co., Ltd"
  /\ Cardinality(Requests(e_st.tr)) = 1
  /\ e_st.info["manufacturing_location"] = "1 Mill Lane Leeds"

\* the GET requests a step of kind "by" has issued to url
Fetched(tr, by, url) ==
  \E i \in 1..Len(tr) : tr[i].k = "get" /\ tr[i].by = by /\ tr[i].url = url

\* C12: for a record that is not skipped, a returned enrich_company has
\* requested the filing history and the company page exactly when the
\* registry number is non-empty, whatever the website resolution and the
\* description gave; without a number no employees or address request is
\* ever issued and the employees fields and the address stay empty.
C12_MiningNotGated ==
  ~IsSkipped(CompanyName(e_row)) =>
    /\ (e_pc = "returned" /\ CompanyNumber(e_row) # "") =>
          /\ Fetched(e_st.tr, "employees", FilingHistoryUrl(CompanyNumber(e_row)))
          /\ Fetched(e_st.tr, "address", CompanyUrl(CompanyNumber(e_row)))
    /\ CompanyNumber(e_row) = "" =>
          /\ \A i \in 1..Len(e_st.tr) : e_st.tr[i].by \notin {"employees", "address", "registry"}
          /\ \A c \in ColumnSet \ {"company_url", "description"} : e_st.info[c] = ""

C12_Witness ==
  /\ e_pc = "returned"
  /\ CompanyName(e_row) = "Acme Manufacturing Ltd"
  /\ e_st.website = ""
  /\ e_st.info["description"] = ""
  /\ e_st.info["employees_2023"] = "25"
  /\ e_st.info["manufacturing_location"] = "1 Mill Lane Leeds"

\* C13: once the loop over the retained filings has ended, every retained
\* filing of a year whose count is still missing has been requested (a
\* failed document stops none of the later ones); a returned call with a
\* registry number has requested the company page whatever the filing
\* history and the documents gave, and the address step has left the
\* employee counts as the filings gave them.
C13_BestEffort ==
  (e_pc \in {"address", "returned"} /\ ~IsSkipped(CompanyName(e_row))
     /\ CompanyNumber(e_row) # "") =>
    /\ \A i \in 1..Len(e_links) :
          e_st.info["employees_" \o e_links[i].year] = ""
            => Fetched(e_st.tr, "employees", PdfUrl(e_links[i].pdf_link))
    /\ \A y \in {"2024", "2023", "2022"} : e_st.info["employees_" \o y] = e_data[y]
    /\ e_pc = "returned" =>
          Fetched(e_st.tr, "address", CompanyUrl(CompanyNumber(e_row)))

C13_Witness ==
  /\ e_pc = "returned"
  /\ Len(e_links) = 3
  /\ \A i \in 1..3 : Fetched(e_st.tr, "employees", PdfUrl(e_links[i].pdf_link))
  /\ e_st.info["employees_2023"] = "25"
  /\ e_st.info["employees_2024"] = ""
  /\ e_st.info["manufacturing_location"] = "1 Mill Lane Leeds"

(***************************************************************************)
(* Properties of the domain candidates                                     *)
(***************************************************************************)
\* the URLs _construct_and_test_domains has sent a HEAD request to, in order
DomainProbes(tr) ==
  Bind(SelectSeq(tr, LAMBDA e : e.k = "head" /\ e.by = "domain"), LAMBDA heads :
    [i \in 1..Len(heads) |-> heads[i].url])

\* the list "candidates" of each record, as the URLs tested
CandidateUrls ==
  [row \in SeqSet(EnrichInputs) |->
     Bind(DomainWords(CompanyName(row)), LAMBDA words :
       IF Len(words) = 0 THEN << >>
       ELSE [i \in 1..Len(DomainCandidates(words)) |->
               "https://www." \o DomainCandidates(words)[i]])]

\* C14: the candidates probed for a record are, in order, the first n entries
\* of the list the name alone determines, for some n of at most 4 (how far the
\* loop gets is all the fetch outcomes decide); so no record has more than 4
\* candidates probed.
C14_CandidatesBounded ==
  /\ Len(DomainProbes(e_st.tr)) <= MaxCandidates
  /\ Len(DomainProbes(e_st.tr)) <= Len(CandidateUrls[e_row])
  /\ DomainProbes(e_st.tr) = Take(CandidateUrls[e_row], Len(DomainProbes(e_st.tr)))

C14_Witness ==
  /\ e_pc = "returned"
  /\ CompanyName(e_row) = "Acme Manufacturing Ltd"
  /\ Len(DomainProbes(e_st.tr)) = MaxCandidates
  /\ e_st.via = "search"

\* C15: for meaningful tokens t1, t2, ... the candidates probed are, in
\* order, among the first 4 entries of t1t2.co.uk, t1-t2.co.uk, t1t2.com,
\* t1t2t3.co.uk (only with 3 tokens or more), t1.co.uk, t1.com, the entries
\* with t2 only with 2 tokens or more; a name of exactly two tokens has
\* t1.co.uk as its fourth candidate.
C15_PriorityOrder ==
  LET t == DomainWords(CompanyName(e_row))
      listed == (IF Len(t) >= 2
                 THEN << t[1] \o t[2] \o ".co.uk", t[1] \o "-" \o t[2] \o ".co.uk",
                         t[1] \o t[2] \o ".com" >>
                 ELSE << >>)
                \o (IF Len(t) >= 3 THEN << t[1] \o t[2] \o t[3] \o ".co.uk" >> ELSE << >>)
                \o (IF Len(t) >= 1 THEN << t[1] \o ".co.uk", t[1] \o ".com" >> ELSE << >>)
      probes == DomainProbes(e_st.tr)
  IN /\ Len(probes) <= Len(Take(listed, MaxCandidates))
     /\ \A i \in 1..Len(probes) : probes[i] = "https://www." \o listed[i]

(***************************************************************************)
(* Properties of QualityValidator                                          *)
(***************************************************************************)
\* C16: every URL starting with http whose host contains an entry of the
\* denylist is rejected with a reason that names the blacklist, for every
\* name, also when all tokens of the name occur in the host and when the host
\* has a suffix that is not accepted.
C16_DenylistFirst ==
  (v_call.op = "website" /\ StartsWith(v_call.url, "http")
     /\ \E i \in 1..Len(blacklisted_domains) :
           Contains(Hostname(v_call.url), blacklisted_domains[i]))
    => /\ ~v_call.verdict.valid
       /\ StartsWith(v_call.verdict.reason, "Blacklisted domain")

C16_Witness ==
  /\ v_call.op = "website"
  /\ v_call.url = "https://www.linkedin.com.acme.net/"
  /\ v_call.name = "Acme Manufacturing Ltd"
  /\ v_call.verdict = Invalid("Blacklisted domain: www.linkedin.com.acme.net")

\* C17: for every URL starting with http whose host is not denylisted and
\* ends with .co.uk, .com or .org, the verdict is a rejection with the reason
\* "No company name match in domain" exactly when the name has at least one
\* meaningful token and none of its tokens is a substring of the host.
C17_NameCorrelation ==
  (v_call.op = "website" /\ StartsWith(v_call.url, "http")
     /\ ~IsBlacklisted(Hostname(v_call.url))
     /\ HasBusinessSuffix(Hostname(v_call.url)))
    => ((~v_call.verdict.valid /\ v_call.verdict.reason = "No company name match in domain")
          <=> (Len(ValidatorWords(v_call.name)) > 0
                 /\ Count(ValidatorWords(v_call.name),
                          LAMBDA w : Contains(Hostname(v_call.url), w)) = 0))

\* C18: an accepted URL has the confidence min(100, 40 + 30*m), m being the
\* number of meaningful tokens of the name that occur in the host; the
\* confidence lies in 0..100 and is at least 70 when the name has a
\* meaningful token.
C18_Confidence ==
  (v_call.op = "website" /\ v_call.verdict.valid)
    => /\ v_call.verdict.confidence
            = Min(100, 40 + 30 * Count(ValidatorWords(v_call.name),
                                       LAMBDA w : Contains(Hostname(v_call.url), w)))
       /\ v_call.verdict.confidence \in 0..100
       /\ Len(ValidatorWords(v_call.name)) > 0 => v_call.verdict.confidence >= 70

\* C19: a description "Company engaged in " + text is rejected when the words
\* of text (compared in lower case) share more than 3 words with the words of
\* the joined classification texts; every other non-empty description is
\* accepted; the description block of enrich_company stores the scraped
\* description or nothing, and stores it only if the check accepts it.
C19_DescriptionRedundancy ==
  LET d == v_call.description
      mechanical == StartsWith(d, "Company engaged in ")
      overlap == Cardinality(WordSet(Lower(SubSeq(d, Len("Company engaged in ") + 1, Len(d))))
                               \cap WordSet(Lower(JoinSpace(v_call.sic))))
  IN /\ v_call.op = "description" =>
          /\ (mechanical /\ overlap > 3) => ~v_call.verdict.valid
          /\ (d # "" /\ ~(mechanical /\ overlap > 3)) => v_call.verdict.valid
     /\ v_call.op = "store" =>
          /\ v_call.stored \in {"", d}
          /\ v_call.stored # "" => ~(mechanical /\ overlap > 3)
          /\ (d # "" /\ ~(mechanical /\ overlap > 3)) => v_call.stored = d

C19_Witness ==
  /\ v_call.op = "store"
  /\ v_call.description = "Company engaged in Manufacture of Metal Structures and tanks"
  /\ v_call.sic[1] = "25.11 - Manufacture of metal structures"
  /\ v_call.stored = ""

(***************************************************************************)
(* Properties of process_csv as its caller sees it                         *)
(***************************************************************************)
\* C20: no exception leaves process_csv, whatever fails while the records
\* are handled; a run in which every record was attempted and the table was
\* written returns the table; the run fails (returns None) only when the
\* table could not be read or the final write failed, and after a failed
\* read no record has been handled and nothing has been written.
C20_NoErrorToCaller ==
  /\ pc \in {"start", "loop", "done", "failed"}
  /\ pc = "done" => (index = NumRecords /\ disk = Saved(df))
  /\ pc = "failed" => (df = << >> \/ index = NumRecords)
  /\ (pc = "failed" /\ df = << >>) =>
        (index = 0 /\ processed = 0 /\ last.i = 0 /\ ~disk.exists)

C20_Witness ==
  /\ pc = "done"
  /\ processed = 0
  /\ last.raised
  /\ \A i \in 1..NumRecords : df[i].cols = input[i].cols

(***************************************************************************)
(* Properties of find_official_website                                     *)
(***************************************************************************)
\* C21: in every strategy the page of a URL is fetched for the content
\* confirmation only after validate_company_website has accepted that URL for
\* the entity: every page-body GET of the call is for an accepted URL.
C21_CheapBeforeExpensive ==
  \A i \in 1..Len(r_call.tr) :
    (r_call.tr[i].k = "get"
       /\ r_call.tr[i].url \notin {FilingHistoryUrl(r_call.number), SearchUrl(r_call.name)})
      => validate_company_website(r_call.tr[i].url, r_call.name).valid

\* C22: once Companies House mining has run, its result is the first URL of
\* the filing-history page, in page order, that passes the URL-level check
\* and the content-level check, and it is empty only if no embedded URL passes
\* both; the result of domain guessing is likewise the first candidate that
\* answers the probe and passes both checks.
C22_FirstPassingBoth ==
  LET name == r_call.name
      web == r_call.env.web
      matches == r_call.env.ch.matches
      cands == IF Len(DomainWords(name)) = 0 THEN << >>
               ELSE Take(DomainCandidates(DomainWords(name)), MaxCandidates)
      mined == {i \in 1..Len(matches) :
                  /\ validate_company_website("https://www." \o matches[i], name).valid
                  /\ _verify_business_website("https://www." \o matches[i], r_call.number,
                                              web, "registry").ret}
      guessed == {i \in 1..Len(cands) :
                    /\ HeadOk(Resp(web, "https://www." \o cands[i]))
                    /\ validate_company_website("https://www." \o cands[i], name).valid
                    /\ _verify_business_website("https://www." \o cands[i], name,
                                                web, "domain").ret}
      first(set) == CHOOSE i \in set : \A j \in set : i <= j
  IN /\ r_call.pc # "domain" =>
          r_call.m1 = IF guessed = {} THEN "" ELSE "https://www." \o cands[first(guessed)]
     /\ (r_call.pc \in {"search", "returned"} /\ r_call.m1 = "" /\ r_call.number # "") =>
          r_call.m2 = IF mined = {} THEN "" ELSE "https://www." \o matches[first(mined)]

\* C23: every URL that find_official_website returns was confirmed by a page
\* whose text holds at least 2 business-indicator keywords and at least 1
\* token of the entity's name longer than 3 characters, whichever strategy
\* found it.
C23_ConfirmedAgainstName ==
  (r_call.pc = "returned" /\ r_call.ret # "") =>
    LET text_content == Lower(Resp(r_call.env.web, r_call.ret).text)
    IN /\ BusinessScore(text_content) >= 2
       /\ NameScore(VerifyWords(r_call.name), text_content) >= 1

\* C24: while one record is resolved, domain guessing never sends a HEAD
\* probe to a URL it has probed before: the probes of a call are pairwise
\* different, for names of one, two, and three or more meaningful tokens.
C24_NoRepeatedProbe ==
  LET probes == DomainProbes(r_call.tr)
  IN \A i, j \in 1..Len(probes) : probes[i] = probes[j] => i = j

(***************************************************************************)
(* process_csv under a keyboard interrupt                                  *)
(***************************************************************************)
\* KeyboardInterrupt raised while enrich_company(row) runs for record
\* index + 1: it is not an Exception, so neither "except Exception" of
\* process_csv handles it; the call ends with the table in memory lost and the
\* output file as the last write left it
Interrupt ==
  /\ pc = "loop"
  /\ index < NumRecords
  /\ pc' = "interrupted"
  /\ UNCHANGED << input, df, disk, index, processed, last, enrich_vars, v_call, r_call >>

NextInterrupt == ProcessRecord \/ FinalSave \/ Interrupt

SpecInterrupt == Init /\ [][NextInterrupt]_vars

\* C25: after an interrupt during record index + 1, the enrichment of every
\* record completed before it is in the persisted table: each earlier row
\* that the run changed is on disk as it is in memory.
C25_InterruptLossBound ==
  pc = "interrupted" =>
    \A j \in 1..index :
      df[j].cols # input[j].cols => (disk.exists /\ disk.table[j].cols = df[j].cols)

(***************************************************************************)
(* Properties of the text search                                           *)
(***************************************************************************)
\* the search strategy has run in this call
SearchRan == r_call.pc = "returned" /\ r_call.m1 = "" /\ r_call.m2 = ""

\* C26: the search strategy returns a result link only if the validator
\* accepted it with confidence >= 50 and the content check passed, and it
\* returns the first result link, in page order, that meets these conditions
\* (none is skipped in favour of a later one); it returns nothing only if no
\* link meets them.
C26_SearchThreshold ==
  LET links == r_call.env.search.links
      meets == {i \in 1..Len(links) :
                  /\ validate_company_website(links[i], r_call.name).valid
                  /\ validate_company_website(links[i], r_call.name).confidence >= 50
                  /\ _verify_business_website(links[i], r_call.name, r_call.env.web, "search").ret}
  IN SearchRan =>
       r_call.m3 = IF meets = {} THEN ""
                   ELSE links[CHOOSE i \in meets : \A j \in meets : i <= j]

\* the search returned a link of confidence 70 while a later link with a
\* higher confidence passes both checks as well
C26_Witness ==
  /\ SearchRan
  /\ r_call.via = "search"
  /\ validate_company_website(r_call.m3, r_call.name).confidence = 70
  /\ \E i \in 1..Len(r_call.env.search.links) :
        /\ r_call.env.search.links[i] # r_call.m3
        /\ validate_company_website(r_call.env.search.links[i], r_call.name).confidence > 70
        /\ _verify_business_website(r_call.env.search.links[i], r_call.name,
                                    r_call.env.web, "search").ret

(***************************************************************************)
(* Properties of get_employee_data_from_accounts                           *)
(***************************************************************************)
\* the filing documents requested so far: every GET of the employees step
\* but the one of the filing history itself
DocumentFetches ==
  {e_st.tr[i].url : i \in {k \in 1..Len(e_st.tr) :
      /\ e_st.tr[k].k = "get"
      /\ e_st.tr[k].by = "employees"
      /\ e_st.tr[k].url # FilingHistoryUrl(CompanyNumber(e_row))}}

\* C27 as stated: a filing document is fetched only for a filing-history entry
\* whose description mentions "annual accounts", and only such an entry
\* contributes an employee count.
C27_AnnualAccountsOnly ==
  /\ \A u \in DocumentFetches :
        \E j \in 1..Len(e_hist) :
          /\ PdfUrl(e_hist[j].href) = u
          /\ Contains(Lower(e_hist[j].text), "annual accounts")
  /\ \A y \in {"2024", "2023", "2022"} :
        e_data[y] # "" =>
          \E j \in 1..Len(e_hist) :
            /\ PdfUrl(e_hist[j].href) \in DocumentFetches
            /\ Contains(Lower(e_hist[j].text), "annual accounts")

\* C27: a filing document is fetched only for a filing-history entry whose
\* description mentions "accounts" ("annual accounts" included); an entry
\* whose description does not contain "accounts" never causes a document
\* fetch, and every stored employee count comes from a fetched entry of its
\* year that mentions "accounts".
C27_AccountsOnly ==
  /\ \A u \in DocumentFetches :
        \E j \in 1..Len(e_hist) :
          /\ PdfUrl(e_hist[j].href) = u
          /\ Contains(Lower(e_hist[j].text), "accounts")
  /\ \A y \in {"2024", "2023", "2022"} :
        e_data[y] # "" =>
          \E j \in 1..Len(e_hist) :
            /\ PdfUrl(e_hist[j].href) \in DocumentFetches
            /\ Contains(Lower(e_hist[j].text), "accounts")
            /\ Contains(e_hist[j].datetime \o " " \o Lower(e_hist[j].text), y)

\* a count was taken from "Total exemption full accounts ...", the document
\* of the confirmation statement of the same year was not requested
C27_Witness ==
  /\ e_pc = "returned"
  /\ e_data["2023"] = "25"
  /\ PdfUrl("/doc/1") \in DocumentFetches
  /\ \E j \in 1..Len(e_hist) :
        /\ ~Contains(Lower(e_hist[j].text), "accounts")
        /\ Contains(e_hist[j].datetime, "2023")
        /\ PdfUrl(e_hist[j].href) \notin DocumentFetches

\* the fiscal years observed in the filing history, as numbers
ObservedYears == {ParseInt(SubSeq(e_hist[j].datetime, 1, 4)) : j \in 1..Len(e_hist)}

\* the 3 most recent of them
TrailingWindow == {y \in ObservedYears : Cardinality({z \in ObservedYears : z > y}) < 3}

\* C28: the years with a recorded employee count are among the 3 most recent
\* fiscal years observed in the filing history, and an accounts filing of one
\* of these 3 years is never left out of account_links because of its year.
C28_TrailingWindow ==
  e_pc \in {"filings", "address", "returned"} =>
    /\ \A y \in {"2024", "2023", "2022"} : e_data[y] # "" => ParseInt(y) \in TrailingWindow
    /\ \A j \in 1..Len(e_hist) :
          (/\ IsAccountsFiling(Lower(e_hist[j].text))
           /\ e_hist[j].time
           /\ e_hist[j].link
           /\ ParseInt(SubSeq(e_hist[j].datetime, 1, 4)) \in TrailingWindow)
            => \E i \in 1..Len(e_links) : e_links[i].pdf_link = e_hist[j].href

(***************************************************************************)
(* Frame of the merge in process_csv                                       *)
(***************************************************************************)
\* C29: a step of process_csv changes at most the six enrichment columns of
\* the record it processes: every other row and the name, registry number
\* and classification texts of every row stay as they are, and no non-empty
\* cell becomes empty or whitespace-only.
C29_MergeFrame ==
  [][\A i \in 1..NumRecords :
        /\ df'[i].CompanyName = df[i].CompanyName
        /\ df'[i].CompanyNumber = df[i].CompanyNumber
        /\ df'[i].SicText = df[i].SicText
        /\ i # index' => df'[i] = df[i]
        /\ \A c \in ColumnSet :
              df[i].cols[c] # "" => (df'[i].cols[c] # "" /\ Strip(df'[i].cols[c]) # "")]_vars

\* a populated record was processed: the columns for which the run found
\* nothing kept their values, another column took the value of this run
C29_Witness ==
  /\ index >= 1
  /\ last.i = index
  /\ ~last.raised
  /\ input[index].cols = previous_info
  /\ \E c \in ColumnSet : last.info[c] = "" /\ df[index].cols[c] = previous_info[c]
  /\ \E c \in ColumnSet : last.info[c] # "" /\ df[index].cols[c] = last.info[c]
                           /\ df[index].cols[c] # previous_info[c]

(***************************************************************************)
(* Entity names without a meaningful token                                 *)
(***************************************************************************)
\* C30: for a name without a token longer than 2 characters, domain guessing
\* issues no request, every result link the validator accepts has confidence
\* 40 and the text search returns nothing; a website is resolved only by
\* Companies House mining, hence only with a registry number.
C30_NoMeaningfulToken ==
  DomainWords(r_call.name) = << >> =>
    /\ \A i \in 1..Len(r_call.tr) : r_call.tr[i].by # "domain"
    /\ r_call.pc # "domain" => r_call.m1 = ""
    /\ \A i \in 1..Len(r_call.env.search.links) :
          validate_company_website(r_call.env.search.links[i], r_call.name).valid =>
            validate_company_website(r_call.env.search.links[i], r_call.name).confidence = 40
    /\ r_call.m3 = ""
    /\ r_call.ret # "" => (r_call.via = "registry" /\ r_call.number # "")

\* the website of "A.B. C.D. Ltd" was resolved from the filing-history page
C30_Witness ==
  /\ DomainWords(r_call.name) = << >>
  /\ r_call.pc = "returned"
  /\ r_call.via = "registry"
  /\ r_call.ret = "https://www.ledgerbooks.co.uk"
  /\ r_call.number # ""

\* the search ran for such a name and gave nothing, although a result link
\* is accepted by the validator and its page passes the content check
C30_SearchWitness ==
  /\ DomainWords(r_call.name) = << >>
  /\ SearchRan
  /\ r_call.ret = ""
  /\ \E i \in 1..Len(r_call.env.search.links) :
        /\ validate_company_website(r_call.env.search.links[i], r_call.name).valid
        /\ _verify_business_website(r_call.env.search.links[i], r_call.name,
                                    r_call.env.web, "search").ret

====
